---- MODULE Spec2Model ----
(***************************************************************************)
(* A model of the neuroevolution core of RL-GymnasiumAPI:                  *)
(*   src/src/ga.py       GeneticAlgorithm (construction, init_population,  *)
(*                       tournament_selection, crossover, mutate, step)    *)
(*   src/src/network.py  FeedForwardNet (construction, decode, act)        *)
(*   src/src/trainer.py  run_experiment (the evolution loop)               *)
(*                                                                         *)
(* Arrays are sequences (1-based); every index VALUE kept in the state is  *)
(* the 0-based index of the Python code, read through At.  Real numbers    *)
(* are abstracted to integers, probabilities to exact fractions <<n, d>>.  *)
(***************************************************************************)
EXTENDS Integers, Sequences, FiniteSets, TLC

VARIABLES
    ga,             \* <<>> before construction, <<the engine's fields>> after
    population,     \* the population array the caller holds and passes to step
    fitnesses,      \* the fitness array the caller holds and passes to step
    pop0,           \* history: the population as it was when step was called
    fit0,           \* history: the fitness vector as it was when step was called
    pc,             \* position inside GeneticAlgorithm.step
    elites,         \* step's local `elites` (rows)
    parent_indices, \* tournament_selection's `parents` / step's `parent_indices`
    new_pop,        \* step's local list `new_pop` (array objects)
    i,              \* step's loop variable
    bred,           \* history: <<idx1, idx2>> of every child pair generated
    result,         \* what the last GeneticAlgorithm call returned or raised
    net,            \* <<>> before construction, <<the network's fields>> after
    lastCall,       \* the last FeedForwardNet method called: "none", "decode", "act"
    netResult,      \* what that call returned or raised
    genomeArg,      \* history: the genome of the last decode that succeeded
    decodedOnce,    \* history: some decode has succeeded since construction
    failedSince,    \* history: a decode has failed since the last one that succeeded
    exp,            \* run_experiment's argument
    tpc,            \* position inside run_experiment
    seedIdx,        \* position of `for seed in seeds`
    runner,         \* <<>> or <<the EnvRunner's fields>>
    gen,            \* run_experiment's loop variable `gen`
    evalIdx,        \* run_experiment's inner loop variable `i`
    runs            \* history: per seed run, its seed, first population and log rows

gaVars == <<ga, population, fitnesses, pop0, fit0, pc, elites, parent_indices,
            new_pop, i, bred, result>>

netVars == <<net, lastCall, netResult, genomeArg, decodedOnce, failedSince>>

loopVars == <<exp, tpc, seedIdx, runner, gen, evalIdx, runs>>

vars == <<gaVars, netVars, loopVars>>

(***************************************************************************)
(* Bounds of the model.                                                    *)
(***************************************************************************)
MaxPop == 3

MaxWidth == 2

MaxLayers == 3

MaxGen == 2

(***************************************************************************)
(* Small helpers for the Python/NumPy value model.                         *)
(***************************************************************************)
At(a, k) == a[k + 1]

Range(s) == {s[k] : k \in 1..Len(s)}

Max2(a, b) == IF a >= b THEN a ELSE b

\* The set of orders (sequences without repetition) of the members of S.
RECURSIVE Perms(_)
Perms(S) ==
    IF S = {} THEN {<<>>}
    ELSE UNION {{<<x>> \o p : p \in Perms(S \ {x})} : x \in S}

\* The ordered samples of k distinct members of S.
RECURSIVE Samples(_, _)
Samples(S, k) ==
    IF k = 0 THEN {<<>>}
    ELSE UNION {{<<x>> \o p : p \in Samples(S \ {x}, k - 1)} : x \in S}

\* np.argmax: the (0-based) position of the first occurrence of the maximum.
ArgMax(v) ==
    CHOOSE k \in 0..(Len(v) - 1) :
        /\ \A m \in 0..(Len(v) - 1) : At(v, m) <= At(v, k)
        /\ \A m \in 0..(k - 1) : At(v, m) < At(v, k)

\* np.argsort with the default (unstable) kind: any order of the indices along
\* which the values do not decrease; the order within a tie is not specified.
ArgSorts(v) ==
    {p \in Perms(0..(Len(v) - 1)) :
        \A a, b \in 1..Len(v) : a < b => At(v, p[a]) <= At(v, p[b])}

\* a[-n:] for n >= 1.
LastN(a, n) == IF n >= Len(a) THEN a ELSE SubSeq(a, Len(a) - n + 1, Len(a))

\* a[:n] for n >= 0.
FirstN(a, n) == IF n >= Len(a) THEN a ELSE SubSeq(a, 1, n)

(***************************************************************************)
(* The random source.  A numpy Generator is either the one the caller      *)
(* handed to the constructor or np.random.default_rng(), which is seeded   *)
(* from the operating system's entropy.  Its state is not visible to the   *)
(* program, so every draw is a choice among the outcomes the distribution  *)
(* can produce.                                                            *)
(***************************************************************************)
NoRng == [source |-> "None"]

CallerRng == [source |-> "caller"]

\* np.random.default_rng() with no seed.
DefaultRng == [source |-> "os_entropy"]

\* The outcomes of `rng.random() < rate`, rng.random() being in [0, 1).
RandomBelow(rate) ==
    {b \in BOOLEAN : (b => rate[1] > 0) /\ (~b => rate[1] < rate[2])}

\* The outcomes of `rng.random(n) < rate`: one boolean per gene.
RandomMask(n, rate) == [1..n -> RandomBelow(rate)]

\* The outcomes of rng.normal(0.0, sigma, size=n) on the integer grid: a draw
\* is a perturbation of size sigma (0 only when sigma is 0).
NormalNoise(n, sigma) == [1..n -> {sigma}]

\* The outcomes of rng.uniform(-1.0, 1.0, size=(rows, cols)) on the grid, whose
\* unit is a tenth: -1.0 and 0.0.
UniformGrid == {-10, 0}

UniformArray(rows, cols) == [1..rows -> [1..cols -> UniformGrid]]

\* rng.choice(n, size=k, replace=False): ValueError for k < 0 or k > n, else
\* an ordered sample of k distinct members of 0..n-1.
RngChoice(n, k) ==
    IF k < 0 \/ k > n THEN {[err |-> "ValueError", val |-> <<>>]}
    ELSE {[err |-> "", val |-> c] : c \in Samples(0..(n - 1), k)}

(***************************************************************************)
(* Array objects.  A row read with population[idx] is a VIEW of the        *)
(* caller's array; np.where and .copy() make fresh arrays.  mutate writes  *)
(* through whatever object it is given.                                    *)
(***************************************************************************)
View(row) == [base |-> "population", row |-> row, data |-> <<>>]

Fresh(data) == [base |-> "fresh", row |-> 0, data |-> data]

\* The values of array object a, the caller's array being pop.
Deref(a, pop) == IF a.base = "population" THEN At(pop, a.row) ELSE a.data

(***************************************************************************)
(* GeneticAlgorithm.__init__: stores its arguments, validates nothing.     *)
(***************************************************************************)
self == ga[1]

GAInit(pop_size, genome_length, crossover_rate, mutation_rate, mutation_sigma, tournament_size, elitism, elitism_frac, rng) ==
    [pop_size        |-> pop_size,
     genome_length   |-> genome_length,
     crossover_rate  |-> crossover_rate,
     mutation_rate   |-> mutation_rate,
     mutation_sigma  |-> mutation_sigma,
     tournament_size |-> tournament_size,
     elitism         |-> elitism,
     elitism_frac    |-> elitism_frac,
     rng             |-> IF rng # NoRng THEN rng ELSE DefaultRng]

\* The configurations the specification calls legal (section 7, InvalidConfig).
RateLegal(r) == r[1] >= 0 /\ r[1] <= r[2]

LegalConfig(g) ==
    /\ g.pop_size >= 1
    /\ g.tournament_size >= 1
    /\ g.tournament_size <= g.pop_size
    /\ RateLegal(g.crossover_rate)
    /\ RateLegal(g.mutation_rate)
    /\ g.mutation_sigma >= 0
    /\ RateLegal(g.elitism_frac)

(***************************************************************************)
(* GeneticAlgorithm.init_population.                                       *)
(***************************************************************************)
InitPopulations(g) == UniformArray(g.pop_size, g.genome_length)

(***************************************************************************)
(* One tournament of tournament_selection (the body of its loop): the      *)
(* winners it can produce, or the error it raises.                         *)
(***************************************************************************)
\* A tournament that forgets to look for the best: the first contender wins.
TournamentWinnerFirstDrawn(contenders, fit) ==
    IF \E c \in Range(contenders) : c >= Len(fit)
    THEN [err |-> "IndexError", idx |-> 0]
    ELSE IF contenders = <<>>
    THEN [err |-> "ValueError", idx |-> 0]
    ELSE [err |-> "", idx |-> At(contenders, 0)]

\* fitnesses[contenders] raises IndexError, np.argmax of nothing ValueError.
TournamentWinner(contenders, fit) ==
    IF \E c \in Range(contenders) : c >= Len(fit)
    THEN [err |-> "IndexError", idx |-> 0]
    ELSE IF contenders = <<>>
    THEN [err |-> "ValueError", idx |-> 0]
    ELSE [err |-> "",
          idx |-> At(contenders,
                     ArgMax([k \in 1..Len(contenders) |-> At(fit, contenders[k])]))]

Tournaments(g, fit) ==
    {IF c.err # "" THEN [err |-> c.err, idx |-> 0] ELSE TournamentWinner(c.val, fit) :
        c \in RngChoice(g.pop_size, g.tournament_size)}

(***************************************************************************)
(* GeneticAlgorithm.crossover: <<child1, child2>> as array objects.        *)
(***************************************************************************)
Where(mask, a, b) == [k \in 1..Len(mask) |-> IF mask[k] THEN a[k] ELSE b[k]]

\* A crossover that, when it does not recombine, returns the parents themselves
\* instead of copies of them.
CrossoverNoCopy(parent1, parent2, doCross, mask, pop) ==
    IF doCross
    THEN <<Fresh(Where(mask, Deref(parent1, pop), Deref(parent2, pop))),
           Fresh(Where(mask, Deref(parent2, pop), Deref(parent1, pop)))>>
    ELSE <<parent1, parent2>>

Crossover(parent1, parent2, doCross, mask, pop) ==
    IF doCross
    THEN <<Fresh(Where(mask, Deref(parent1, pop), Deref(parent2, pop))),
           Fresh(Where(mask, Deref(parent2, pop), Deref(parent1, pop)))>>
    ELSE <<Fresh(Deref(parent1, pop)), Fresh(Deref(parent2, pop))>>

(***************************************************************************)
(* GeneticAlgorithm.mutate: genome[mutation_mask] += noise[mutation_mask], *)
(* in place.  MutateValues is the new content; MutateObject and MutateHeap *)
(* are the object returned and the caller's array after the write.         *)
(***************************************************************************)
MutateValues(v, mask, noise) ==
    [k \in 1..Len(v) |-> IF mask[k] THEN v[k] + noise[k] ELSE v[k]]

MutateObject(genome, mask, noise) ==
    IF genome.base = "population" THEN genome
    ELSE Fresh(MutateValues(genome.data, mask, noise))

MutateHeap(genome, mask, noise, pop) ==
    IF genome.base = "population"
    THEN [pop EXCEPT ![genome.row + 1] = MutateValues(@, mask, noise)]
    ELSE pop

\* Every <<child1, child2>> crossover can return for the two parents.
Crossovers(g, parent1, parent2, pop) ==
    UNION {IF doCross
           THEN {Crossover(parent1, parent2, TRUE, mask, pop) :
                    mask \in RandomMask(g.genome_length, <<1, 2>>)}
           ELSE {Crossover(parent1, parent2, FALSE, <<>>, pop)} :
           doCross \in RandomBelow(g.crossover_rate)}

\* Every <<returned object, caller's array afterwards>> of mutate(genome).
Mutations(g, genome, pop) ==
    {<<MutateObject(genome, mask, noise), MutateHeap(genome, mask, noise, pop)>> :
        mask \in RandomMask(g.genome_length, g.mutation_rate),
        noise \in NormalNoise(g.genome_length, g.mutation_sigma)}

(***************************************************************************)
(* GeneticAlgorithm.step, lines 111-119: the elites.                       *)
(***************************************************************************)
UseElites(g) == g.elitism /\ g.elitism_frac[1] > 0

\* max(1, int(elitism_frac * pop_size))
NElites(g) == Max2(1, (g.elitism_frac[1] * g.pop_size) \div g.elitism_frac[2])

\* The values np.argsort(fitnesses)[-n_elites:] can take.
EliteIndices(g, fit) == {LastN(order, NElites(g)) : order \in ArgSorts(fit)}

\* population[elite_indices]: a copy of the rows (fancy indexing).
TakeRows(pop, indices) == [k \in 1..Len(indices) |-> At(pop, indices[k])]

(***************************************************************************)
(* The inputs the model enumerates.                                        *)
(***************************************************************************)
PopSizes == 1..MaxPop

GenomeLengths == {1}

\* <<crossover_rate, mutation_rate>>: never, sometimes, always.
RateArgs ==
    {<<<<0, 1>>, <<0, 1>>>>, <<<<1, 2>>, <<1, 2>>>>, <<<<1, 1>>, <<1, 1>>>>,
     <<<<0, 1>>, <<1, 1>>>>, <<<<1, 1>>, <<0, 1>>>>}

\* <<elitism, elitism_frac>>: off, on with fraction 0, 1/2, 3/4 and 1.
ElitismArgs ==
    {<<FALSE, <<1, 2>>>>, <<TRUE, <<0, 1>>>>, <<TRUE, <<1, 2>>>>,
     <<TRUE, <<3, 4>>>>, <<TRUE, <<1, 1>>>>}

Sigmas == {1}

RngArgs == {NoRng}

\* The populations a caller passes: one whose rows are all different (row r
\* holds 10r+1, 10r+2, ...), so that every gene shows where it came from, and
\* one whose rows are all equal.
InputPopulations(n, len) ==
    {[r \in 1..n |-> [k \in 1..len |-> 10 * r + k]],
     [r \in 1..n |-> [k \in 1..len |-> 0]]}

\* The fitness vectors of length m a caller passes: all equal, increasing,
\* decreasing, best in the first two places (a tie), worst in the last place.
FitnessPatterns(m) ==
    {[k \in 1..m |-> 0],
     [k \in 1..m |-> k],
     [k \in 1..m |-> m - k],
     [k \in 1..m |-> IF k <= 2 THEN 1 ELSE 0],
     [k \in 1..m |-> IF k = m THEN 0 ELSE 1]}

InputFitnesses(n) == UNION {FitnessPatterns(m) : m \in {n - 1, n, n + 1}}

(***************************************************************************)
(* The state after construction of nothing: no engine yet.                 *)
(***************************************************************************)
NoResult == [status |-> "none", value |-> <<>>]

Raised(err) == [status |-> err, value |-> <<>>]

Returned(rows) == [status |-> "ok", value |-> rows]

GAInitState ==
    /\ ga = <<>>
    /\ population = <<>>
    /\ fitnesses = <<>>
    /\ pop0 = <<>>
    /\ fit0 = <<>>
    /\ pc = "idle"
    /\ elites = <<>>
    /\ parent_indices = <<>>
    /\ new_pop = <<>>
    /\ i = 0
    /\ bred = <<>>
    /\ result = NoResult

NetInitState ==
    /\ net = <<>>
    /\ lastCall = "none"
    /\ netResult = NoResult
    /\ genomeArg = <<>>
    /\ decodedOnce = FALSE
    /\ failedSince = FALSE

\* No experiment is running.
NoExperiment == [env_id |-> "none"]

LoopOffState ==
    /\ exp = NoExperiment
    /\ tpc = "off"
    /\ seedIdx = 0
    /\ runner = <<>>
    /\ gen = 0
    /\ evalIdx = 0
    /\ runs = <<>>

Init == GAInitState /\ NetInitState /\ LoopOffState

\* Leaving step: the locals are gone.
Leave(res) ==
    /\ pc' = IF res.status = "ok" THEN "returned" ELSE "raised"
    /\ result' = res
    /\ elites' = <<>>
    /\ parent_indices' = <<>>
    /\ new_pop' = <<>>
    /\ i' = 0

\* GeneticAlgorithm(...)
Construct ==
    /\ ga = <<>>
    /\ \E pop_size \in PopSizes, genome_length \in GenomeLengths,
          rates \in RateArgs,
          mutation_sigma \in Sigmas, el \in ElitismArgs, rng \in RngArgs :
          \E tournament_size \in 0..(pop_size + 1) :
            ga' = <<GAInit(pop_size, genome_length, rates[1], rates[2],
                           mutation_sigma, tournament_size, el[1], el[2], rng)>>
    /\ UNCHANGED <<population, fitnesses, pop0, fit0, pc, elites, parent_indices,
                   new_pop, i, bred, result>>
    /\ UNCHANGED <<netVars, loopVars>>

\* step(p, f), lines 111-119: the caller's arrays are p and f.
StepEnter(p, f) ==
    /\ pc = "idle"
    /\ population' = p
    /\ fitnesses' = f
    /\ pop0' = p
    /\ fit0' = f
    /\ bred' = <<>>
    /\ \E elite_indices \in
            (IF UseElites(self) THEN EliteIndices(self, f) ELSE {<<>>}) :
        IF \E idx \in Range(elite_indices) : idx >= Len(p)
        THEN Leave(Raised("IndexError"))
        ELSE /\ elites' = TakeRows(p, elite_indices)
             /\ pc' = "select"
             /\ parent_indices' = <<>>
             /\ new_pop' = <<>>
             /\ i' = 0
             /\ result' = NoResult
    /\ UNCHANGED ga

\* A caller of the engine calls step with arrays of its own.
CallStep ==
    /\ ga # <<>>
    /\ \E p \in InputPopulations(self.pop_size, self.genome_length),
          f \in InputFitnesses(self.pop_size) :
        StepEnter(p, f)
    /\ UNCHANGED <<netVars, loopVars>>

\* One iteration of tournament_selection's loop (lines 61-66); after the last
\* one, `return parents` and step goes on to its own loop.
TournamentIter ==
    /\ pc = "select"
    /\ \E w \in Tournaments(self, fitnesses) :
        IF w.err # ""
        THEN Leave(Raised(w.err))
        ELSE /\ parent_indices' = Append(parent_indices, w.idx)
             /\ pc' = IF Len(parent_indices) + 1 = self.pop_size
                      THEN "breed" ELSE "select"
             /\ UNCHANGED <<elites, new_pop, i, result>>
    /\ UNCHANGED <<ga, population, fitnesses, pop0, fit0, bred>>
    /\ UNCHANGED <<netVars, loopVars>>

\* One iteration of step's loop (lines 125-132).
BreedIter ==
    /\ pc = "breed"
    /\ i < self.pop_size - Len(elites)
    /\ IF i + 1 >= Len(parent_indices)
       THEN Leave(Raised("IndexError")) /\ UNCHANGED <<population, bred>>
       ELSE LET idx1 == At(parent_indices, i)
                idx2 == At(parent_indices, i + 1)
            IN \E c \in Crossovers(self, View(idx1), View(idx2), population) :
                 \E m1 \in Mutations(self, c[1], population) :
                   \E m2 \in Mutations(self, c[2], m1[2]) :
                     /\ new_pop' = new_pop \o <<m1[1], m2[1]>>
                     /\ population' = m2[2]
                     /\ bred' = Append(bred, <<idx1, idx2>>)
                     /\ i' = i + 2
                     /\ UNCHANGED <<pc, elites, parent_indices, result>>
    /\ UNCHANGED <<ga, fitnesses, pop0, fit0>>
    /\ UNCHANGED <<netVars, loopVars>>

\* Lines 134-139: np.array(new_pop), the trim, the vstack and the return.
StepReturn ==
    /\ pc = "breed"
    /\ i >= self.pop_size - Len(elites)
    /\ LET arr == [k \in 1..Len(new_pop) |-> Deref(new_pop[k], population)]
           trimmed == FirstN(arr, self.pop_size - Len(elites))
       IN IF Len(elites) * self.genome_length # 0
          THEN IF new_pop = <<>> /\ self.genome_length # 0
               THEN Leave(Raised("ValueError"))
               ELSE Leave(Returned(trimmed \o elites))
          ELSE Leave(Returned(trimmed))
    /\ UNCHANGED <<ga, population, fitnesses, pop0, fit0, bred>>
    /\ UNCHANGED <<netVars, loopVars>>

Next ==
    \/ Construct
    \/ CallStep
    \/ TournamentIter
    \/ BreedIter
    \/ StepReturn

Spec == Init /\ [][Next]_vars

(***************************************************************************)
(* FeedForwardNet.  A weight matrix is the sequence of its rows.           *)
(***************************************************************************)
RECURSIVE SumSeq(_)
SumSeq(v) == IF v = <<>> THEN 0 ELSE v[1] + SumSeq(Tail(v))

\* FeedForwardNet.__init__
NetInit(layer_sizes) ==
    LET shapes == [k \in 1..(Len(layer_sizes) - 1) |->
                      <<layer_sizes[k], layer_sizes[k + 1]>>]
    IN [layer_sizes |-> layer_sizes,
        shapes      |-> shapes,
        num_weights |-> SumSeq([k \in 1..Len(shapes) |->
                                   shapes[k][1] * shapes[k][2] + shapes[k][2]]),
        weights     |-> <<>>,
        biases      |-> <<>>]

\* genome[lo:hi] for 0 <= lo <= hi <= len(genome).
Slice(a, lo, hi) == SubSeq(a, lo + 1, hi)

\* A reshape in Fortran (column-major) order.
ReshapeColumnMajor(a, in_dim, out_dim) ==
    [r \in 1..in_dim |-> [c \in 1..out_dim |-> a[(c - 1) * in_dim + r]]]

\* a.reshape(in_dim, out_dim), C order: element (r, c) is a[r * out_dim + c].
Reshape(a, in_dim, out_dim) ==
    [r \in 1..in_dim |-> [c \in 1..out_dim |-> a[(r - 1) * out_dim + c]]]

\* The loop of decode (lines 35-44) from offset idx on: one <<W, b>> per layer.
RECURSIVE DecodeFrom(_, _, _)
DecodeFrom(shapes, genome, idx) ==
    IF shapes = <<>> THEN <<>>
    ELSE LET in_dim  == shapes[1][1]
             out_dim == shapes[1][2]
             w_size  == in_dim * out_dim
             b_size  == out_dim
             W == Reshape(Slice(genome, idx, idx + w_size), in_dim, out_dim)
             b == Slice(genome, idx + w_size, idx + w_size + b_size)
         IN <<<<W, b>>>> \o DecodeFrom(Tail(shapes), genome, idx + w_size + b_size)

\* decode's assertion (line 30).
DecodeAccepts(n, genome) == Len(genome) = n.num_weights

\* A decode that empties the parameter lists before it checks the length.
DecodeClearsFirst(n, genome) ==
    IF ~DecodeAccepts(n, genome) THEN [n EXCEPT !.weights = <<>>, !.biases = <<>>]
    ELSE LET layers == DecodeFrom(n.shapes, genome, 0)
         IN [n EXCEPT !.weights = [k \in 1..Len(layers) |-> layers[k][1]],
                      !.biases  = [k \in 1..Len(layers) |-> layers[k][2]]]

\* The network after decode(genome): untouched when the assertion fails.
Decode(n, genome) ==
    IF ~DecodeAccepts(n, genome) THEN n
    ELSE LET layers == DecodeFrom(n.shapes, genome, 0)
         IN [n EXCEPT !.weights = [k \in 1..Len(layers) |-> layers[k][1]],
                      !.biases  = [k \in 1..Len(layers) |-> layers[k][2]]]

\* tanh on the integer grid: odd, monotone, saturating at -1 and 1.
Tanh(x) == IF x > 0 THEN 1 ELSE IF x < 0 THEN -1 ELSE 0

\* x @ W + b
Affine(x, W, b) ==
    [c \in 1..Len(b) |-> SumSeq([r \in 1..Len(x) |-> x[r] * W[r][c]]) + b[c]]

\* The forward pass of act (lines 57-62).
RECURSIVE Forward(_, _, _)
Forward(x, weights, biases) ==
    IF Len(weights) = 1 THEN Affine(x, weights[1], biases[1])
    ELSE LET h == Affine(x, weights[1], biases[1])
         IN Forward([c \in 1..Len(h) |-> Tanh(h[c])], Tail(weights), Tail(biases))

\* act's assertion (line 55): both lists are non-empty.
ActAccepts(n) == n.weights # <<>> /\ n.biases # <<>>

\* What act(obs, discrete) returns: <<the action index>> or the logits.
Act(n, obs, discrete) ==
    IF ~ActAccepts(n) THEN Raised("NotDecoded")
    ELSE LET logits == Forward(obs, n.weights, n.biases)
         IN Returned(IF discrete THEN <<ArgMax(logits)>> ELSE logits)

(***************************************************************************)
(* The inputs of the network model.                                        *)
(***************************************************************************)
Topologies ==
    UNION {[1..n -> 1..MaxWidth] : n \in 2..MaxLayers}

\* Genomes of length n whose entries are all different.
GenomesOfLength(n) == {[k \in 1..n |-> k], [k \in 1..n |-> n + 1 - k]}

DecodeArgs(n) ==
    UNION {GenomesOfLength(m) :
              m \in {n.num_weights - 1, n.num_weights, n.num_weights + 1}}

Observations(n) == [1..n.layer_sizes[1] -> {0, 1}]

\* FeedForwardNet(layer_sizes)
NetConstruct ==
    /\ net = <<>>
    /\ \E layer_sizes \in Topologies : net' = <<NetInit(layer_sizes)>>
    /\ UNCHANGED <<lastCall, netResult, genomeArg, decodedOnce, failedSince>>
    /\ UNCHANGED <<gaVars, loopVars>>

\* net.decode(genome)
NetDecode ==
    /\ net # <<>>
    /\ \E genome \in DecodeArgs(net[1]) :
        /\ net' = <<Decode(net[1], genome)>>
        /\ lastCall' = "decode"
        /\ IF DecodeAccepts(net[1], genome)
           THEN /\ netResult' = Returned(<<>>)
                /\ genomeArg' = genome
                /\ decodedOnce' = TRUE
                /\ failedSince' = FALSE
           ELSE /\ netResult' = Raised("ShapeMismatch")
                /\ failedSince' = TRUE
                /\ UNCHANGED <<genomeArg, decodedOnce>>
    /\ UNCHANGED <<gaVars, loopVars>>

\* net.act(obs, discrete)
NetAct ==
    /\ net # <<>>
    /\ \E obs \in Observations(net[1]), discrete \in BOOLEAN :
        netResult' = Act(net[1], obs, discrete)
    /\ lastCall' = "act"
    /\ UNCHANGED <<net, genomeArg, decodedOnce, failedSince>>
    /\ UNCHANGED <<gaVars, loopVars>>

NetNext ==
    \/ NetConstruct
    \/ NetDecode
    \/ NetAct

SpecNet == Init /\ [][NetNext]_vars

(***************************************************************************)
(* EnvRunner.  The Gymnasium environment is an external collaborator; the  *)
(* model uses a one-dimensional continuous environment whose episodes last *)
(* one step and whose behaviour is a function of the seed it is reset      *)
(* with: the same seed gives the same observations and rewards.            *)
(***************************************************************************)
\* EnvRunner.__init__
EnvRunnerInit(env_id, seed) ==
    [env_id      |-> env_id,
     seed        |-> seed,
     obs_dim     |-> 1,
     action_dim  |-> 1,
     is_discrete |-> FALSE]

\* self.env.reset(seed=reset_seed): the first observation.
EnvReset(reset_seed) == <<(reset_seed % 2) + 1>>

\* self.env.step(action): the reward is the action; the episode is over.
EnvStep(action) == [reward |-> action[1], done |-> TRUE]

\* One episode of evaluate (lines 68-83).
EpisodeReward(r, n, ep) ==
    EnvStep(Act(n, EnvReset(r.seed + ep), r.is_discrete).value).reward

\* EnvRunner.evaluate: the average of the episodes' total rewards.
Evaluate(r, n, episodes) ==
    SumSeq([ep \in 1..episodes |-> EpisodeReward(r, n, ep - 1)]) \div episodes

(***************************************************************************)
(* run_experiment.                                                         *)
(***************************************************************************)
\* dict.get(key, default)
GetOr(d, key, default) == IF key \in DOMAIN d THEN d[key] ELSE default

\* Lines 41-50: the engine run_experiment builds; no rng is passed.
TrainerGA(ga_params, num_weights) ==
    GAInit(ga_params.pop_size,
           num_weights,
           GetOr(ga_params, "crossover_rate", <<9, 10>>),
           GetOr(ga_params, "mutation_rate", <<1, 20>>),
           GetOr(ga_params, "mutation_sigma", 1),
           GetOr(ga_params, "tournament_size", 3),
           GetOr(ga_params, "elitism", TRUE),
           GetOr(ga_params, "elitism_frac", <<1, 20>>),
           NoRng)

\* np.max(fitnesses)
MaxOf(v) == CHOOSE x \in Range(v) : \A y \in Range(v) : y <= x

Experiment(ga_params, seeds, generations) ==
    [env_id |-> "Stub-v0", ga_params |-> ga_params, net_arch |-> <<>>,
     seeds |-> seeds, generations |-> generations, episodes_per_eval |-> 1]

\* ga_params of the experiments the model runs: the defaults with three
\* individuals; two individuals, one of them an elite; two individuals, both
\* elites; three individuals and no elitism.
DefaultParams == [pop_size |-> 3]

PairParams ==
    [pop_size |-> 2, tournament_size |-> 2, elitism_frac |-> <<1, 2>>,
     crossover_rate |-> <<0, 1>>, mutation_rate |-> <<0, 1>>]

AllElitesParams ==
    [pop_size |-> 2, tournament_size |-> 1, elitism_frac |-> <<1, 1>>,
     crossover_rate |-> <<0, 1>>, mutation_rate |-> <<0, 1>>]

OddParams ==
    [pop_size |-> 3, elitism |-> FALSE,
     crossover_rate |-> <<0, 1>>, mutation_rate |-> <<0, 1>>]

Experiments ==
    {Experiment(DefaultParams, <<0>>, 1)}
    \cup {Experiment(PairParams, sd, g) :
            sd \in {<<0>>, <<0, 0>>, <<0, 1>>}, g \in 1..MaxGen}
    \cup {Experiment(gp, <<1>>, g) :
            gp \in {AllElitesParams, OddParams}, g \in 1..MaxGen}

\* run_experiment(exp) has been called and is about to take its first seed.
LoopInit ==
    /\ GAInitState
    /\ NetInitState
    /\ exp \in Experiments
    /\ tpc = "next_seed"
    /\ seedIdx = 0
    /\ runner = <<>>
    /\ gen = 0
    /\ evalIdx = 0
    /\ runs = <<>>

\* The run of the seed in progress; its log rows.
ThisRun == runs[Len(runs)]

\* Lines 73-74 and the next turn of `for seed in seeds`.
SeedDone ==
    /\ seedIdx' = seedIdx + 1
    /\ tpc' = "next_seed"

\* Lines 33-58: the runner, the network, the engine, the first population and
\* the log file of one seed.
LoopStartSeed ==
    /\ tpc = "next_seed"
    /\ seedIdx < Len(exp.seeds)
    /\ LET seed == At(exp.seeds, seedIdx)
           r == EnvRunnerInit(exp.env_id, seed)
           n == NetInit(<<r.obs_dim>> \o exp.net_arch \o <<r.action_dim>>)
           g == TrainerGA(exp.ga_params, n.num_weights)
       IN /\ runner' = <<r>>
          /\ net' = <<n>>
          /\ lastCall' = "none"
          /\ netResult' = NoResult
          /\ genomeArg' = <<>>
          /\ decodedOnce' = FALSE
          /\ failedSince' = FALSE
          /\ ga' = <<g>>
          /\ \E p \in InitPopulations(g) :
                /\ population' = p
                /\ runs' = Append(runs, [seed |-> seed, init |-> p, rows |-> <<>>,
                                         evalFailed |-> FALSE, steps |-> 0])
          /\ gen' = 0
          /\ evalIdx' = 0
          /\ IF exp.generations > 0
             THEN tpc' = "eval" /\ UNCHANGED seedIdx
             ELSE SeedDone
    /\ UNCHANGED <<exp, fitnesses, pop0, fit0, pc, elites, parent_indices, new_pop,
                   i, bred, result>>

\* Lines 62-66 for one genome: (at i = 0, fitnesses = np.zeros(pop_size);)
\* net.decode(genome); fitnesses[i] = runner.evaluate(net, episodes).  The
\* environment may fail, and the exception leaves run_experiment.
LoopEval ==
    /\ tpc = "eval"
    /\ LET base == IF evalIdx = 0 THEN [k \in 1..self.pop_size |-> 0] ELSE fitnesses
           genome == At(population, evalIdx)
           n == Decode(net[1], genome)
       IN /\ net' = <<n>>
          /\ IF ~DecodeAccepts(net[1], genome)
             THEN /\ lastCall' = "decode"
                  /\ netResult' = Raised("ShapeMismatch")
                  /\ failedSince' = TRUE
                  /\ tpc' = "aborted"
                  /\ UNCHANGED <<genomeArg, decodedOnce, fitnesses, evalIdx, runs>>
             ELSE /\ genomeArg' = genome
                  /\ decodedOnce' = TRUE
                  /\ failedSince' = FALSE
                  /\ \E envOk \in BOOLEAN :
                        IF envOk
                        THEN /\ lastCall' = "act"
                             /\ netResult' = Act(n, EnvReset(runner[1].seed +
                                    exp.episodes_per_eval - 1), runner[1].is_discrete)
                             /\ fitnesses' = [base EXCEPT ![evalIdx + 1] =
                                    Evaluate(runner[1], n, exp.episodes_per_eval)]
                             /\ evalIdx' = evalIdx + 1
                             /\ tpc' = IF evalIdx + 1 < self.pop_size
                                       THEN "eval" ELSE "record"
                             /\ UNCHANGED runs
                        ELSE /\ lastCall' = "decode"
                             /\ netResult' = Returned(<<>>)
                             /\ fitnesses' = base
                             /\ tpc' = "aborted"
                             /\ runs' = [runs EXCEPT ![Len(runs)].evalFailed = TRUE]
                             /\ UNCHANGED evalIdx
    /\ UNCHANGED <<exp, seedIdx, runner, gen>>
    /\ UNCHANGED <<ga, population, pop0, fit0, pc, elites, parent_indices, new_pop,
                   i, bred, result>>

\* Lines 67-70: best = float(np.max(fitnesses)); writer.writerow(...).  Beside
\* the row's three fields the model notes how many genomes of the generation
\* had been evaluated, their fitness, and how many times step had been called.
LoopRecord ==
    /\ tpc = "record"
    /\ runs' = [runs EXCEPT ![Len(runs)].rows =
                   Append(@, [seed |-> runner[1].seed,
                              generation |-> gen,
                              best_fitness |-> MaxOf(fitnesses),
                              evaluated |-> evalIdx,
                              fitness |-> fitnesses,
                              steps |-> ThisRun.steps])]
    /\ tpc' = "step"
    /\ UNCHANGED <<exp, seedIdx, runner, gen, evalIdx>>
    /\ UNCHANGED <<gaVars, netVars>>

\* Line 71, the call: ga.step(population, fitnesses).
LoopStep ==
    /\ tpc = "step"
    /\ StepEnter(population, fitnesses)
    /\ tpc' = "in_step"
    /\ runs' = [runs EXCEPT ![Len(runs)].steps = @ + 1]
    /\ UNCHANGED <<exp, seedIdx, runner, gen, evalIdx>>
    /\ UNCHANGED netVars

\* Line 71, the assignment: population = (what step returned), and the next
\* turn of `for gen in range(generations)`; an exception leaves run_experiment.
LoopStepDone ==
    /\ tpc = "in_step"
    /\ pc \in {"returned", "raised"}
    /\ pc' = "idle"
    /\ IF pc = "raised"
       THEN /\ tpc' = "aborted"
            /\ UNCHANGED <<population, gen, evalIdx, seedIdx>>
       ELSE /\ population' = result.value
            /\ gen' = gen + 1
            /\ evalIdx' = 0
            /\ IF gen + 1 < exp.generations
               THEN tpc' = "eval" /\ UNCHANGED seedIdx
               ELSE SeedDone
    /\ UNCHANGED <<exp, runner, runs>>
    /\ UNCHANGED <<ga, fitnesses, pop0, fit0, elites, parent_indices, new_pop, i,
                   bred, result>>
    /\ UNCHANGED netVars

LoopNext ==
    \/ LoopStartSeed
    \/ LoopEval
    \/ LoopRecord
    \/ LoopStep
    \/ LoopStepDone
    \/ TournamentIter
    \/ BreedIter
    \/ StepReturn

SpecLoop == LoopInit /\ [][LoopNext]_vars

(***************************************************************************)
(* Claims about GeneticAlgorithm (specification Spec).                     *)
(***************************************************************************)
StepLeft == pc \in {"returned", "raised"}

\* The call the claims about step speak of: a legal configuration and a fitness
\* vector with one entry per individual.
LegalCall == ga # <<>> /\ LegalConfig(self) /\ Len(fit0) = self.pop_size

IsPopulation(rows, n, len) ==
    /\ Len(rows) = n
    /\ \A r \in 1..Len(rows) : Len(rows[r]) = len

\* The sets of n individuals holding the top n fitness values of fit.
TopSets(fit, n) ==
    {T \in SUBSET (1..Len(fit)) :
        /\ Cardinality(T) = n
        /\ \A a \in T : \A b \in (1..Len(fit)) \ T : fit[a] >= fit[b]}

\* C1: step returns, without raising, a population of exactly pop_size genomes
\* of length genome_length, for every legal configuration and every
\* population/fitness pair of size pop_size.
C1_StepReturnsPopSize ==
    (LegalCall /\ StepLeft) =>
        /\ result.status = "ok"
        /\ IsPopulation(result.value, self.pop_size, self.genome_length)

\* C2: with elitism on and elitism_frac f > 0, the genomes holding the top
\* max(1, floor(f * pop_size)) fitness values of the input population are rows
\* of the population step returns, unchanged.
C2_ElitesInReturnedPopulation ==
    (LegalCall /\ UseElites(self) /\ StepLeft) =>
        /\ result.status = "ok"
        /\ \E T \in TopSets(fit0, NElites(self)) :
              \A a \in T : pop0[a] \in Range(result.value)

\* C3: step fails with InvalidFitnessLength, returning no population, whenever
\* the length of the fitness vector differs from pop_size.
C3_InvalidFitnessLength ==
    (ga # <<>> /\ LegalConfig(self) /\ StepLeft /\ Len(fit0) # self.pop_size) =>
        /\ result.status = "InvalidFitnessLength"
        /\ result.value = <<>>

\* C4: a configuration with tournament_size < 1 or > pop_size (or any other
\* illegal hyperparameter) is rejected at construction, so no engine with an
\* illegal configuration exists to reach init_population, tournament_selection
\* or step.
C4_IllegalConfigRejected ==
    ga # <<>> => LegalConfig(self)

\* C5: after step(population, fitnesses) has returned, every gene of the input
\* population and every entry of the input fitness vector has the value it had
\* before the call, whatever crossover_rate and mutation_rate are.
C5_InputsUnchanged ==
    pc = "returned" => (population = pop0 /\ fitnesses = fit0)

\* C5's case: crossover was skipped (rate 0), every gene of the children was
\* mutated (rate 1), the children differ from every parent, step has returned.
C5_Witness ==
    /\ pc = "returned"
    /\ self.crossover_rate = <<0, 1>>
    /\ self.mutation_rate = <<1, 1>>
    /\ Len(bred) >= 1
    /\ \E r \in 1..Len(result.value) : result.value[r] \notin Range(pop0)
    /\ population = pop0

\* The individuals of maximal fitness among the pop_size individuals.
Fittest(fit, n) == {a \in 0..(n - 1) : \A b \in 0..(n - 1) : At(fit, b) <= At(fit, a)}

\* C6 as stated: tournament_selection returns pop_size indices in [0, pop_size),
\* and with tournament_size = pop_size every one of them is the single best
\* individual: all parents are one and the same individual, the fittest.
C6_Original ==
    (LegalCall /\ pc = "breed") =>
        /\ Len(parent_indices) = self.pop_size
        /\ \A k \in 1..Len(parent_indices) : parent_indices[k] \in 0..(self.pop_size - 1)
        /\ self.tournament_size = self.pop_size =>
              \E best \in Fittest(fit0, self.pop_size) :
                  /\ \A k \in 1..Len(parent_indices) : parent_indices[k] = best
                  /\ \A k \in 1..Len(bred) : bred[k] = <<best, best>>

\* C6 amended: tournament_selection returns pop_size indices in [0, pop_size); with
\* tournament_size = pop_size every one of them is an individual of maximal
\* fitness (the single best one when the maximum is attained once), and so are
\* both parents of every child pair step generates.
C6_ParentsAreFittest ==
    (LegalCall /\ pc = "breed") =>
        /\ Len(parent_indices) = self.pop_size
        /\ \A k \in 1..Len(parent_indices) : parent_indices[k] \in 0..(self.pop_size - 1)
        /\ self.tournament_size = self.pop_size =>
              /\ \A k \in 1..Len(parent_indices) :
                    parent_indices[k] \in Fittest(fit0, self.pop_size)
              /\ \A k \in 1..Len(bred) :
                    /\ bred[k][1] \in Fittest(fit0, self.pop_size)
                    /\ bred[k][2] \in Fittest(fit0, self.pop_size)
                    /\ bred[k] = <<At(parent_indices, 2 * (k - 1)),
                                   At(parent_indices, 2 * (k - 1) + 1)>>

\* C6's case: a full-population tournament over three individuals with one best
\* individual that is not the first, elitism off, a child pair generated.
C6_Witness ==
    /\ LegalCall
    /\ pc = "breed"
    /\ self.pop_size = 3
    /\ self.tournament_size = self.pop_size
    /\ ~self.elitism
    /\ Fittest(fit0, self.pop_size) = {2}
    /\ bred = <<<<2, 2>>>>

(***************************************************************************)
(* Claims about FeedForwardNet (specification SpecNet).                    *)
(***************************************************************************)
\* The flat vector rebuilt from decoded parameters: per layer the weights row
\* by row, then the biases.
RECURSIVE ConcatAll(_)
ConcatAll(ss) == IF ss = <<>> THEN <<>> ELSE ss[1] \o ConcatAll(Tail(ss))

Flatten(weights, biases) ==
    ConcatAll([k \in 1..Len(weights) |-> ConcatAll(weights[k]) \o biases[k]])

\* Where layer l's slice starts in the genome: the sizes of the layers before it.
LayerOffset(layer_sizes, l) ==
    SumSeq([k \in 1..(l - 1) |->
               layer_sizes[k] * layer_sizes[k + 1] + layer_sizes[k + 1]])

\* C7: for every topology, decode splits a genome of length
\* L = sum(in_i * out_i + out_i) into per-layer slices that follow one another
\* with no gap or overlap and end at L (weights row-major, then biases), and
\* flattening the decoded parameters in that order gives the genome back.
C7_DecodeRoundTrip ==
    decodedOnce =>
        LET n == net[1]
            layers == Len(n.layer_sizes) - 1
        IN /\ Len(n.weights) = layers
           /\ Len(n.biases) = layers
           /\ LayerOffset(n.layer_sizes, layers + 1) = Len(genomeArg)
           /\ \A l \in 1..layers :
                LET in_dim  == n.layer_sizes[l]
                    out_dim == n.layer_sizes[l + 1]
                    off     == LayerOffset(n.layer_sizes, l)
                IN /\ Len(n.weights[l]) = in_dim
                   /\ Len(n.biases[l]) = out_dim
                   /\ \A r \in 1..in_dim :
                        /\ Len(n.weights[l][r]) = out_dim
                        /\ \A c \in 1..out_dim :
                             n.weights[l][r][c] = genomeArg[off + (r - 1) * out_dim + c]
                   /\ \A c \in 1..out_dim :
                        n.biases[l][c] = genomeArg[off + in_dim * out_dim + c]
           /\ Flatten(n.weights, n.biases) = genomeArg

\* C7's case: a two-layer network with square weight matrices has decoded a
\* genome whose twelve entries are all different.
C7_Witness ==
    /\ decodedOnce
    /\ lastCall = "decode"
    /\ netResult.status = "ok"
    /\ net[1].layer_sizes = <<2, 2, 2>>
    /\ genomeArg = [k \in 1..12 |-> k]

\* C8: act fails with NotDecoded exactly when no decode has succeeded since
\* construction; once one has, every later act returns an action, also after a
\* later decode that failed on a genome of the wrong length.
C8_NotDecodedIffNeverDecoded ==
    lastCall = "act" =>
        /\ (netResult.status = "NotDecoded") <=> ~decodedOnce
        /\ decodedOnce => (netResult.status = "ok" /\ netResult.value # <<>>)

\* C8's case: a decode succeeded, a later one failed, and act then answered.
C8_Witness ==
    /\ lastCall = "act"
    /\ decodedOnce
    /\ failedSince
    /\ netResult.status = "ok"

(***************************************************************************)
(* Claims about run_experiment (specification SpecLoop).                   *)
(***************************************************************************)
\* Run q of the experiment is over: a later seed has started, every seed is
\* done, or an exception has left run_experiment.
RunOver(q) == q < Len(runs) \/ tpc \in {"next_seed", "aborted"}

\* Every row written so far is a whole generation's: generation indices count up
\* from 0, every genome of the generation had been evaluated, the row carries
\* the maximum of their fitness, and step had been called once per earlier row.
RowsWellFormed(r) ==
    \A k \in 1..Len(r.rows) :
        /\ r.rows[k].seed = r.seed
        /\ r.rows[k].generation = k - 1
        /\ r.rows[k].evaluated = exp.ga_params.pop_size
        /\ Len(r.rows[k].fitness) = exp.ga_params.pop_size
        /\ \A x \in Range(r.rows[k].fitness) : x <= r.rows[k].best_fitness
        /\ r.rows[k].best_fitness \in Range(r.rows[k].fitness)
        /\ r.rows[k].steps = k - 1

\* No row of the generation in which an evaluation failed, nor of a later one.
NoRowAfterFailure ==
    (runs # <<>> /\ ThisRun.evalFailed) => Len(ThisRun.rows) = gen

LoopRecordsSound ==
    /\ \A q \in 1..Len(runs) :
          RowsWellFormed(runs[q]) /\ Len(runs[q].rows) <= exp.generations
    /\ NoRowAfterFailure

\* C9: for each seed the loop emits exactly `generations` records, with indices
\* 0 .. generations-1 in order; each is written after all pop_size genomes of
\* its generation have been evaluated, carries the maximum of their fitness and
\* precedes the step that replaces the population; after a failed evaluation no
\* record of that generation or a later one is written.
C9_GenerationRecords ==
    /\ LoopRecordsSound
    /\ \A q \in 1..Len(runs) :
          (RunOver(q) /\ ~runs[q].evalFailed) =>
              Len(runs[q].rows) = exp.generations

\* The three fields of the rows of a run.
Records(r) ==
    [k \in 1..Len(r.rows) |->
        <<r.rows[k].seed, r.rows[k].generation, r.rows[k].best_fitness>>]

\* C10: the engine's random source is seeded per run, so two runs with the same
\* configuration, seed and environment start from the same population and
\* write the same generation records.
C10_SameSeedSameRun ==
    \A a, b \in 1..Len(runs) :
        runs[a].seed = runs[b].seed =>
            /\ runs[a].init = runs[b].init
            /\ \A k \in 1..Len(runs[a].rows) :
                  k <= Len(runs[b].rows) => Records(runs[a])[k] = Records(runs[b])[k]

(***************************************************************************)
(* Elite choice on ties (specification Spec).                              *)
(***************************************************************************)
\* The n individuals (1-based) that come first when the individuals are ranked
\* by fitness, highest first, equal fitness by lowest original index first.
LowestIndexElites(fit, n) ==
    CHOOSE T \in SUBSET (1..Len(fit)) :
        /\ Cardinality(T) = n
        /\ \A a \in T : \A b \in (1..Len(fit)) \ T :
              fit[a] > fit[b] \/ (fit[a] = fit[b] /\ a < b)

\* C11: when several individuals have equal fitness at the elite cut-off, the
\* elites step carries over are chosen by original index: among the tied
\* individuals, those with the lowest original index.
C11_EliteTiesLowestIndex ==
    (LegalCall /\ UseElites(self) /\ pc \in {"select", "breed"}) =>
        Range(elites) = {pop0[a] : a \in LowestIndexElites(fit0, NElites(self))}

====
